---- MODULE Spec2Model ----
(***************************************************************************)
(* A model of the two command-line tools of LifeTraderAPI:                 *)
(*   fetchmarketdata.py  the Market Data CLI (quote, candles)              *)
(*   fetch_news.py       the Technical Report Tool (two worker threads)    *)
(*                                                                         *)
(* Time is counted in ticks, TicksPerDay ticks to one UTC calendar day; a  *)
(* calendar date ("%Y-%m-%d") is the number of the day.  A Python str that *)
(* comes from the command line is a record: Text(s) for a string that is   *)
(* no number, Dec(h) for the decimal literal of the value h/2 ("3" is      *)
(* Dec(6), "3.5" is Dec(7)).  Python's None and JSON's null are None.      *)
(* An exception in flight is the field exc of the process record.          *)
(***************************************************************************)
EXTENDS Integers, Sequences, FiniteSets, TLC

VARIABLES
    market,     \* the provider's bars: the set of bar times it holds
    phase,      \* "ready" before the process runs, "exited" after
    argv,       \* the arguments of the invocation
    proc,       \* the process: stdout, exception in flight, provider requests
    pagedFrom,  \* the nextTo this invocation was given as --to, or None
    env,        \* what the provider answered to this invocation
    \* ---- Technical Report Tool ----
    result_rsi, result_news, result_sentiment,
    pcMain, pcRsi, pcNews,
    rsi,        \* the RSI worker's locals
    news,       \* the news worker's locals
    report      \* what the main thread printed

cliVars == <<market, phase, argv, proc, pagedFrom, env>>
repVars == <<result_rsi, result_news, result_sentiment, pcMain, pcRsi, pcNews,
             rsi, news, report>>
vars == <<market, phase, argv, proc, pagedFrom, env, result_rsi, result_news,
          result_sentiment, pcMain, pcRsi, pcNews, rsi, news, report>>

\* ---------------------------------------------------------------- bounds
TicksPerDay == 2
MaxTime == 4

\* ---------------------------------------------------------------- values
None == [none |-> TRUE]
Num(n) == [int |-> n]
Text(s) == [num |-> FALSE, h2 |-> 0, text |-> s]
Dec(h) == [num |-> TRUE, h2 |-> h, text |-> ""]

Min(a, b) == IF a < b THEN a ELSE b
Max(a, b) == IF a > b THEN a ELSE b

\* bool(x) of an optional str: None and "" are false
Truthy(v) == v # None /\ v # Text("")

\* int(s) of a str: only an integer literal parses
IntParses(s) == s.num /\ s.h2 % 2 = 0
IntOf(s) == s.h2 \div 2

\* float(s) parses every decimal literal; int(float) truncates toward zero
FloatParses(s) == s.num
IntOfFloat(s) == IF s.h2 >= 0 THEN s.h2 \div 2 ELSE -((-s.h2) \div 2)

\* str(n) of an int, as the caller passes a nextTo back on the command line
StrOfInt(n) == Dec(2 * n)

upper(s) == CASE s = "amd" -> "AMD" [] OTHER -> s

\* datetime.fromtimestamp(t, utc).strftime("%Y-%m-%d"): the UTC day of t
strftime_date(t) == t \div TicksPerDay
\* the instant a date string names: the start of that UTC day
DateInstant(d) == d * TicksPerDay

RECURSIVE SortedSeq(_)
SortedSeq(S) ==
    IF S = {} THEN <<>>
    ELSE LET m == CHOOSE x \in S : \A y \in S : x <= y
         IN <<m>> \o SortedSeq(S \ {m})

\* ---------------------------------------------------------------- tables
TF_TO_YF_INTERVAL ==
    ("1m" :> "1m") @@ ("5m" :> "5m") @@ ("15m" :> "15m") @@ ("1h" :> "1h") @@
    ("1d" :> "1d") @@ ("1w" :> "1wk") @@ ("1mo" :> "1mo")

RANGE_TO_YF_PERIOD ==
    ("7d" :> "7d") @@ ("30d" :> "1mo") @@ ("90d" :> "3mo") @@
    ("180d" :> "6mo") @@ ("1y" :> "1y") @@ ("2y" :> "2y")

\* in days
RANGE_TO_TIMEDELTA ==
    ("7d" :> 7) @@ ("30d" :> 30) @@ ("90d" :> 90) @@
    ("180d" :> 180) @@ ("1y" :> 365) @@ ("2y" :> 730)

LimitCap == 2000

\* ---------------------------------------------------------------- process
Started == [stdout |-> <<>>, exc |-> "none", requests |-> <<>>, fetched |-> <<>>]

NoArgs == [command |-> "none", symbol |-> "", tf |-> "", range |-> "",
           limit |-> None, to |-> None]

NoEnv == [none |-> TRUE]

print(p, obj) == [p EXCEPT !.stdout = Append(@, obj)]
raise(p, e) == [p EXCEPT !.exc = e]

\* print the failure object, then sys.exit(1): SystemExit is in flight
error_json(p, msg) == raise(print(p, [ok |-> FALSE, error |-> msg]), "SystemExit")

\* a faulty variant: the handler catches SystemExit too, as "except:" would
ExceptCatchesAll(e) == e # "none"
\* "except Exception": SystemExit is a BaseException and passes through
ExceptExceptionCatches(e) == e \notin {"none", "SystemExit"}

\* the interpreter's exit status: 0 at a normal end, 1 for SystemExit(1) and
\* for an uncaught exception (which prints a traceback on stderr, not stdout)
ExitCode(p) == IF p.exc = "none" THEN 0 ELSE 1
Traceback(p) == p.exc \notin {"none", "SystemExit"}

\* ---------------------------------------------------------------- provider
\* What ticker.history answers to a request: the bars of the market inside
\* the requested window, ascending.  A period request reaches back from now.
PeriodDays ==
    ("7d" :> 7) @@ ("1mo" :> 30) @@ ("3mo" :> 90) @@ ("6mo" :> 180) @@
    ("1y" :> 365) @@ ("2y" :> 730) @@ ("1d" :> 1)

Now == MaxTime + 1

ticker_history(mkt, req) ==
    IF req.mode = "window"
    THEN SortedSeq({t \in mkt : DateInstant(req.start) <= t /\ t < DateInstant(req.end)})
    ELSE SortedSeq({t \in mkt : Now - PeriodDays[req.period] * TicksPerDay <= t})

\* hist.iloc[s:] with Python's slice rules
iloc_from(h, s) ==
    LET n == Len(h)
        i == IF s < 0 THEN Max(n + s, 0) ELSE Min(s, n)
    IN SubSeq(h, i + 1, n)

\* ---------------------------------------------------------------- cmd_quote
Round4(p) ==
    LET q == p \div 10
        r == p % 10
    IN IF r < 5 THEN 10 * q
       ELSE IF r > 5 THEN 10 * (q + 1)
       ELSE IF q % 2 = 0 THEN 10 * q ELSE 10 * (q + 1)

LastClose(closes) == closes[Len(closes)]

quote_try(symbol, prov) ==
    IF prov.fast_raises THEN raise(Started, "ProviderError")
    ELSE IF prov.last_price # None
    THEN print(Started, [ok |-> TRUE, symbol |-> symbol,
                         price |-> Round4(prov.last_price.int),
                         timestampUtc |-> "now"])
    ELSE LET p1 == [Started EXCEPT !.requests = Append(@, [mode |-> "period",
                        period |-> "1d", interval |-> "1d"])]
         IN IF prov.raises THEN raise(p1, "ProviderError")
            ELSE IF prov.closes = <<>>
            THEN error_json(p1, [msg |-> "No quote data found", symbol |-> symbol])
            ELSE print(p1, [ok |-> TRUE, symbol |-> symbol,
                            price |-> Round4(LastClose(prov.closes)),
                            timestampUtc |-> "now"])

cmd_quote(args, prov) ==
    LET symbol == upper(args.symbol)
        body == quote_try(symbol, prov)
    IN IF ExceptExceptionCatches(body.exc)
       THEN error_json(body, [msg |-> "Quote fetch failed", symbol |-> symbol,
                              cause |-> body.exc])
       ELSE body

\* ---------------------------------------------------------------- cmd_candles
\* a faulty variant: the window runs through the pivot's own day
PagingRequestThroughPivotDay(to_ts, range_code, yf_interval) ==
    LET to_unix == IntOfFloat(to_ts)
        end_dt == to_unix
        delta == RANGE_TO_TIMEDELTA[range_code] * TicksPerDay
        start_dt == end_dt - delta
    IN [mode |-> "window", start |-> strftime_date(start_dt),
        end |-> strftime_date(end_dt) + 1, interval |-> yf_interval]

PagingRequest(to_ts, range_code, yf_interval) ==
    LET to_unix == IntOfFloat(to_ts)
        end_dt == to_unix
        delta == RANGE_TO_TIMEDELTA[range_code] * TicksPerDay
        start_dt == end_dt - delta
    IN [mode |-> "window", start |-> strftime_date(start_dt),
        end |-> strftime_date(end_dt), interval |-> yf_interval]

StandardRequest(range_code, yf_interval) ==
    [mode |-> "period", period |-> RANGE_TO_YF_PERIOD[range_code],
     interval |-> yf_interval]

Trim(hist, limit) == IF Len(hist) > limit THEN iloc_from(hist, -limit) ELSE hist

candles_try(symbol, tf, range_code, limit, to_ts, mkt, prov) ==
    LET yf_interval == TF_TO_YF_INTERVAL[tf] IN
    IF Truthy(to_ts) /\ ~FloatParses(to_ts) THEN raise(Started, "ValueError")
    ELSE
    LET req == IF Truthy(to_ts) THEN PagingRequest(to_ts, range_code, yf_interval)
               ELSE StandardRequest(range_code, yf_interval)
        p1 == [Started EXCEPT !.requests = Append(@, req)]
    IN IF prov.raises THEN raise(p1, "ProviderError")
       ELSE
       LET hist == ticker_history(mkt, req)
           p2 == [p1 EXCEPT !.fetched = hist]
       IN IF hist = <<>>
          THEN error_json(p2, [msg |-> "No candle data returned", symbol |-> symbol,
                               tf |-> tf, range |-> range_code])
          ELSE
          LET trimmed == Trim(hist, limit)
              candles == [i \in 1..Len(trimmed) |-> [time |-> trimmed[i]]]
              next_to == IF candles # <<>> THEN Num(candles[1].time) ELSE None
          IN IF prov.nan_volume /\ trimmed # <<>>
             THEN raise(p2, "ValueError")   \* int(row["Volume"]) of a NaN
             ELSE print(p2, [ok |-> TRUE, symbol |-> symbol, tf |-> tf,
                             candles |-> candles, nextTo |-> next_to])

cmd_candles(args, mkt, prov) ==
    LET symbol == upper(args.symbol)
        tf == args.tf
        range_code == args.range
    IN IF ~IntParses(args.limit) THEN raise(Started, "ValueError")
       ELSE
       LET limit == Min(IntOf(args.limit), LimitCap) IN
       IF tf \notin DOMAIN TF_TO_YF_INTERVAL
       THEN error_json(Started, [msg |-> "Invalid timeframe", arg |-> tf,
                                 allowed |-> DOMAIN TF_TO_YF_INTERVAL])
       ELSE IF range_code \notin DOMAIN RANGE_TO_YF_PERIOD
       THEN error_json(Started, [msg |-> "Invalid range", arg |-> range_code,
                                 allowed |-> DOMAIN RANGE_TO_YF_PERIOD])
       ELSE
       LET body == candles_try(symbol, tf, range_code, limit, args.to, mkt, prov)
       IN IF ExceptExceptionCatches(body.exc)
          THEN error_json(body, [msg |-> "Candle fetch failed", symbol |-> symbol,
                                 cause |-> body.exc])
          ELSE body

\* ================================================================ report tool
\* A float: a number, or NaN (every comparison with NaN is false)
F(v) == [nan |-> FALSE, v |-> v]
NaN == [nan |-> TRUE, v |-> 0]
FEq(a, b) == ~a.nan /\ ~b.nan /\ a.v = b.v
FGe(a, b) == ~a.nan /\ ~b.nan /\ a.v >= b.v
FLe(a, b) == ~a.nan /\ ~b.nan /\ a.v <= b.v

\* A sentiment value num/den, in hundredths
Ratio(n, d) == [num |-> n, den |-> d]
RGt(r, c) == r.num > c * r.den
RLt(r, c) == r.num < c * r.den

NoData == [kind |-> "NoData"]
NoReport == [printed |-> FALSE]
RsiLocals == [exc |-> "none", empty |-> FALSE, value |-> NaN]
NewsLocals == [remaining |-> 0, headlines |-> <<>>, total_score |-> 0,
               count |-> 0, exc |-> "none"]

MaxNews == 6
RsiValues == {NaN, F(0), F(30), F(50), F(70), F(100)}
Scores == {-20, 10, 20}
FetchErrors == {"ProviderError"}
KeywordErrors == {"ProviderError", "IndexError", "AttributeError"}
ItemErrors == {"AttributeError", "TypeError"}

\* ---------------------------------------------------------------- get_rsi_data
\* the bare "except:" catches whatever is in flight
rsi_except(e) == e # "none"

RsiFetch ==
    /\ pcRsi = "run"
    /\ \/ \E e \in FetchErrors \cup {"IndicatorError"} : rsi' = [rsi EXCEPT !.exc = e]
       \/ rsi' = [rsi EXCEPT !.empty = TRUE]
       \/ \E v \in RsiValues : rsi' = [rsi EXCEPT !.value = v]
    /\ pcRsi' = "store"
    /\ UNCHANGED <<result_rsi, result_news, result_sentiment, pcMain, pcNews, news, report>>
    /\ UNCHANGED cliVars

RsiStore ==
    /\ pcRsi = "store"
    /\ IF rsi.exc # "none"
       THEN IF rsi_except(rsi.exc)
            THEN result_rsi' = F(-1) /\ pcRsi' = "done"
            ELSE UNCHANGED result_rsi /\ pcRsi' = "died"
       ELSE /\ result_rsi' = IF ~rsi.empty THEN rsi.value ELSE F(-1)
            /\ pcRsi' = "done"
    /\ UNCHANGED <<result_news, result_sentiment, pcMain, pcNews, rsi, news, report>>
    /\ UNCHANGED cliVars

\* ---------------------------------------------------------------- get_news_data
\* a faulty variant: the handler catches provider errors only
news_except_narrow(e) == e = "ProviderError"
news_except(e) == ExceptExceptionCatches(e)

Label(score) == IF score > 10 THEN "POSITIVE"
                ELSE IF score < -10 THEN "NEGATIVE" ELSE "NEUTRAL"

NewsStep(pc, locals) ==
    /\ pcNews' = pc
    /\ news' = locals
    /\ UNCHANGED <<result_rsi, result_news, result_sentiment, pcMain, pcRsi, rsi, report>>
    /\ UNCHANGED cliVars

\* ticker.news
NewsFetch ==
    /\ pcNews = "run"
    /\ \/ \E e \in FetchErrors : NewsStep("except", [news EXCEPT !.exc = e])
       \/ \E n \in 0 .. MaxNews : NewsStep("keywords", [news EXCEPT !.remaining = n])

\* keywords = [symbol, ticker.info.get('shortName', '').split()[0]]
NewsKeywords ==
    /\ pcNews = "keywords"
    /\ \/ \E e \in KeywordErrors : NewsStep("except", [news EXCEPT !.exc = e])
       \/ NewsStep(IF news.remaining > 0 THEN "loop" ELSE "store_news", news)

\* one pass of "for item in news_list"
NewsItem ==
    /\ pcNews = "loop"
    /\ news.remaining > 0
    /\ \/ \E e \in ItemErrors : NewsStep("except", [news EXCEPT !.exc = e])
       \/ \E is_relevant \in BOOLEAN, score \in Scores :
            LET n1 == IF is_relevant
                      THEN [news EXCEPT !.total_score = @ + score,
                                        !.count = @ + 1,
                                        !.headlines = Append(@, Label(score)),
                                        !.remaining = @ - 1]
                      ELSE [news EXCEPT !.remaining = @ - 1]
            IN NewsStep(IF n1.count >= 5 \/ n1.remaining = 0
                        THEN "store_news" ELSE "loop", n1)

NewsStoreNews ==
    /\ pcNews = "store_news"
    /\ result_news' = [kind |-> "Headlines",
                       lines |-> IF news.headlines = <<>>
                                 THEN <<"No specific news found">>
                                 ELSE news.headlines]
    /\ pcNews' = "store_sentiment"
    /\ UNCHANGED <<result_rsi, result_sentiment, pcMain, pcRsi, rsi, news, report>>
    /\ UNCHANGED cliVars

NewsStoreSentiment ==
    /\ pcNews = "store_sentiment"
    /\ result_sentiment' = IF news.count > 0
                           THEN Ratio(news.total_score, news.count)
                           ELSE Ratio(0, 1)
    /\ pcNews' = "done"
    /\ UNCHANGED <<result_rsi, result_news, pcMain, pcRsi, rsi, news, report>>
    /\ UNCHANGED cliVars

NewsHandler ==
    /\ pcNews = "except"
    /\ IF news_except(news.exc)
       THEN result_news' = [kind |-> "Error", msg |-> news.exc] /\ pcNews' = "done"
       ELSE UNCHANGED result_news /\ pcNews' = "died"
    /\ UNCHANGED <<result_rsi, result_sentiment, pcMain, pcRsi, rsi, news, report>>
    /\ UNCHANGED cliVars

\* ---------------------------------------------------------------- __main__
\* a faulty variant: join does not wait
JoinedAtOnce(pc) == TRUE
\* Thread.join returns once the thread has ended, normally or not
Joined(pc) == pc \in {"done", "died"}

RsiStatus(r) ==
    IF FEq(r, F(-1)) THEN "DATA ERROR"
    ELSE IF FGe(r, F(70)) THEN "OVERBOUGHT (SELL RISK)"
    ELSE IF FLe(r, F(30)) THEN "OVERSOLD (BUY CHANCE)"
    ELSE "NEUTRAL"

SentStatus(s) ==
    IF RGt(s, 10) THEN "BULLISH" ELSE IF RLt(s, -10) THEN "BEARISH" ELSE "NEUTRAL"

MainStep(pc) ==
    /\ pcMain' = pc
    /\ UNCHANGED <<result_rsi, result_news, result_sentiment, rsi, news>>
    /\ UNCHANGED cliVars

MainNoSymbol ==
    /\ pcMain = "args"
    /\ report' = [printed |-> TRUE, error |-> "No symbol provided", exit |-> 1]
    /\ MainStep("exited")
    /\ UNCHANGED <<pcRsi, pcNews>>

MainSymbol ==
    /\ pcMain = "args"
    /\ MainStep("start_rsi")
    /\ UNCHANGED <<pcRsi, pcNews, report>>

MainStartRsi ==
    /\ pcMain = "start_rsi"
    /\ pcRsi' = "run"
    /\ MainStep("start_news")
    /\ UNCHANGED <<pcNews, report>>

MainStartNews ==
    /\ pcMain = "start_news"
    /\ pcNews' = "run"
    /\ MainStep("join_rsi")
    /\ UNCHANGED <<pcRsi, report>>

MainJoinRsi ==
    /\ pcMain = "join_rsi"
    /\ Joined(pcRsi)
    /\ MainStep("join_news")
    /\ UNCHANGED <<pcRsi, pcNews, report>>

MainJoinNews ==
    /\ pcMain = "join_news"
    /\ Joined(pcNews)
    /\ MainStep("report")
    /\ UNCHANGED <<pcRsi, pcNews, report>>

MainReport ==
    /\ pcMain = "report"
    /\ report' = [printed |-> TRUE,
                  rsi |-> result_rsi, rsi_status |-> RsiStatus(result_rsi),
                  sentiment |-> result_sentiment,
                  sent_status |-> SentStatus(result_sentiment),
                  news |-> result_news]
    /\ MainStep("done")
    /\ UNCHANGED <<pcRsi, pcNews>>

InitReport ==
    /\ market = {}
    /\ phase = "off"
    /\ argv = NoArgs
    /\ proc = Started
    /\ pagedFrom = None
    /\ env = NoEnv
    /\ result_rsi = F(-1)
    /\ result_news = NoData
    /\ result_sentiment = Ratio(0, 1)
    /\ pcMain = "args" /\ pcRsi = "unstarted" /\ pcNews = "unstarted"
    /\ rsi = RsiLocals /\ news = NewsLocals /\ report = NoReport

RsiWorker == RsiFetch \/ RsiStore
NewsWorker == NewsFetch \/ NewsKeywords \/ NewsItem \/ NewsStoreNews
                \/ NewsStoreSentiment \/ NewsHandler
Main == MainNoSymbol \/ MainSymbol \/ MainStartRsi \/ MainStartNews
          \/ MainJoinRsi \/ MainJoinNews \/ MainReport

NextReport == Main \/ RsiWorker \/ NewsWorker

SpecReport == InitReport /\ [][NextReport]_vars

\* each thread that can take a step eventually does: every provider call
\* returns or raises, and the interpreter schedules every runnable thread
SpecReportFair ==
    SpecReport /\ WF_vars(Main) /\ WF_vars(RsiWorker) /\ WF_vars(NewsWorker)

\* ---------------------------------------------------------------- inputs
Symbols == {"amd", "MSFT"}
TfArgs == {"1m", "1d", "1w", "2h"}
RangeArgs == {"7d", "30d", "2y", "3d"}
LimitArgs == {Text("abc"), Dec(3), Dec(-4), Dec(-2), Dec(0), Dec(2), Dec(4),
              Dec(1000), Dec(10000)}
ToArgs == {None, Text(""), Text("abc")}
            \cup {Dec(h) : h \in 0 .. 2 * MaxTime + 3}
            \cup {Dec(2 * ((RANGE_TO_TIMEDELTA["7d"] + 1) * TicksPerDay + t)) :
                     t \in 0 .. 1}
Prices == {12344, 12345, 12355}
Closes == {<<>>, <<12344>>, <<12355, 12346>>}

CandleProv == [raises : BOOLEAN, nan_volume : BOOLEAN]
QuoteProv == [fast_raises : BOOLEAN, last_price : {None} \cup {Num(p) : p \in Prices},
              raises : BOOLEAN, closes : Closes]

\* ---------------------------------------------------------------- CLI actions
InitCli ==
    /\ market \in SUBSET (0 .. MaxTime)
    /\ phase = "ready"
    /\ argv = NoArgs
    /\ proc = Started
    /\ pagedFrom = None
    /\ env = NoEnv
    /\ result_rsi = F(-1)
    /\ result_news = NoData
    /\ result_sentiment = Ratio(0, 1)
    /\ pcMain = "off" /\ pcRsi = "off" /\ pcNews = "off"
    /\ rsi = RsiLocals /\ news = NewsLocals /\ report = NoReport

Exit(args, prov, p, from) ==
    /\ phase' = "exited"
    /\ env' = prov
    /\ argv' = args
    /\ proc' = p
    /\ pagedFrom' = from
    /\ UNCHANGED market
    /\ UNCHANGED repVars

Quote ==
    /\ phase = "ready"
    /\ \E s \in Symbols, prov \in QuoteProv :
         LET args == [NoArgs EXCEPT !.command = "quote", !.symbol = s]
         IN Exit(args, prov, cmd_quote(args, prov), None)

Candles ==
    /\ phase = "ready"
    /\ \E s \in Symbols, tf \in TfArgs, r \in RangeArgs, l \in LimitArgs,
          to \in ToArgs, prov \in CandleProv :
         LET args == [command |-> "candles", symbol |-> s, tf |-> tf,
                      range |-> r, limit |-> l, to |-> to]
         IN Exit(args, prov, cmd_candles(args, market, prov), None)

UnknownCommand ==
    /\ phase = "ready"
    /\ Exit(NoArgs, NoEnv, error_json(Started, [msg |-> "Unknown command"]), None)

Succeeded(p) == p.exc = "none" /\ Len(p.stdout) = 1 /\ p.stdout[1].ok

\* the caller asks for the next older page: --to is the nextTo just printed
CandlesNextPage ==
    /\ phase = "exited"
    /\ argv.command = "candles"
    /\ Succeeded(proc)
    /\ proc.stdout[1].nextTo # None
    /\ \E l \in LimitArgs, prov \in CandleProv :
         LET nt == proc.stdout[1].nextTo.int
             args == [argv EXCEPT !.limit = l, !.to = StrOfInt(nt)]
         IN Exit(args, prov, cmd_candles(args, market, prov), Num(nt))

NextCli == Quote \/ Candles \/ UnknownCommand \/ CandlesNextPage

SpecCli == InitCli /\ [][NextCli]_vars
\* ================================================================ claims: CLI
Exited == phase = "exited"
IsCandles == Exited /\ argv.command = "candles"
IsQuote == Exited /\ argv.command = "quote"
Response == proc.stdout[1]
OneFailureObject ==
    /\ Len(proc.stdout) = 1
    /\ ~proc.stdout[1].ok
    /\ "error" \in DOMAIN proc.stdout[1]
IsSuffix(a, b) ==
    Len(a) <= Len(b) /\ \A i \in 1 .. Len(a) : a[i] = b[Len(b) - Len(a) + i]
Times(candles) == [i \in 1 .. Len(candles) |-> candles[i].time]

\* C1: every invocation that fails leaves exactly one {"ok":false,"error":...}
\* object on stdout and exit code 1, and never ends in an uncaught exception.
C1_FailureIsOneErrorObject ==
    Exited /\ ~Succeeded(proc) =>
        /\ OneFailureObject
        /\ ExitCode(proc) = 1
        /\ ~Traceback(proc)

\* C2: a successful candles response holds at most --limit candles and at
\* most 2000, and they are the most recent bars of the fetched sequence.
C2_CountWithinLimit ==
    IsCandles /\ Succeeded(proc) =>
        /\ Len(Response.candles) <= argv.limit.h2 \div 2
        /\ Len(Response.candles) <= 2000
        /\ IsSuffix(Times(Response.candles), proc.fetched)

\* C3: a call whose --to is the nextTo of the previous successful response
\* returns no bar whose time is at or after that pivot.
C3_PageBeforePivot ==
    IsCandles /\ pagedFrom # None /\ Succeeded(proc) =>
        \A i \in 1 .. Len(Response.candles) :
            Response.candles[i].time < pagedFrom.int

\* a page of at least one bar, fetched from a market that also holds bars at
\* and after the pivot
C3_Witness ==
    /\ IsCandles /\ pagedFrom # None /\ Succeeded(proc)
    /\ Len(Response.candles) >= 1
    /\ \E t \in market : t > pagedFrom.int

\* C4: nextTo is the time of the first returned candle; when the returned
\* candles array is empty the response has no nextTo.
C4_NextToFirstOrAbsent ==
    IsCandles /\ Succeeded(proc) =>
        IF Response.candles # <<>>
        THEN "nextTo" \in DOMAIN Response
                /\ Response.nextTo = Num(Response.candles[1].time)
        ELSE "nextTo" \notin DOMAIN Response

\* C5: an invalid --tf or --range ends, whatever the other arguments, with one
\* failure object that lists the allowed values, exit code 1, and no request
\* to the provider.
C5_InvalidCodeRejected ==
    LET badTf == argv.tf \notin {"1m", "5m", "15m", "1h", "1d", "1w", "1mo"}
        badRange == argv.range \notin {"7d", "30d", "90d", "180d", "1y", "2y"}
    IN IsCandles /\ (badTf \/ badRange) =>
        /\ OneFailureObject
        /\ "allowed" \in DOMAIN Response.error
        /\ \/ badTf /\ Response.error.allowed
                         = {"1m", "5m", "15m", "1h", "1d", "1w", "1mo"}
           \/ badRange /\ Response.error.allowed
                         = {"7d", "30d", "90d", "180d", "1y", "2y"}
        /\ ExitCode(proc) = 1
        /\ proc.requests = <<>>

\* C6: a success response never has an empty candles array, and an invocation
\* whose candle sequence is empty after the fetch ends with one failure object
\* and exit code 1.
C6_NoEmptySuccess ==
    /\ IsCandles /\ Succeeded(proc) => Response.candles # <<>>
    /\ IsCandles /\ proc.requests # <<>> /\ ~env.raises /\ proc.fetched = <<>> =>
          OneFailureObject /\ ExitCode(proc) = 1

\* C7: with no fast price, the quote is the latest daily close rounded to 4
\* decimals; with no fast price and no history, stdout is the single
\* "No quote data found" failure object and the exit code is 1.
C7_QuoteFallback ==
    IsQuote /\ ~env.fast_raises /\ env.last_price = None /\ ~env.raises =>
        IF env.closes # <<>>
        THEN LET close == env.closes[Len(env.closes)] IN
             /\ Succeeded(proc) /\ ExitCode(proc) = 0
             /\ Response.price % 10 = 0
             /\ 2 * (Response.price - close) <= 10
             /\ 2 * (close - Response.price) <= 10
        ELSE /\ OneFailureObject
             /\ Response.error.msg = "No quote data found"
             /\ ExitCode(proc) = 1

\* the fallback answered from a history of two closes that round differently
C7_Witness ==
    /\ IsQuote /\ ~env.fast_raises /\ env.last_price = None /\ ~env.raises
    /\ Len(env.closes) = 2
    /\ Succeeded(proc)
    /\ Response.price = 12350

\* C10: in paging mode the requested window ends at the pivot and starts
\* rangeDuration before it, so every bar in [pivot - rangeDuration, pivot)
\* is inside the window that is fetched.
C10_WindowEndsAtPivot ==
    LET days == CASE argv.range = "7d" -> 7 [] argv.range = "30d" -> 30
                  [] argv.range = "90d" -> 90 [] argv.range = "180d" -> 180
                  [] argv.range = "1y" -> 365 [] argv.range = "2y" -> 730
        pivot == argv.to.h2 \div 2
    IN IsCandles /\ argv.to # None /\ argv.to.num /\ argv.to.h2 % 2 = 0
          /\ proc.requests # <<>> =>
        /\ proc.requests[1].mode = "window"
        /\ proc.requests[1].end * TicksPerDay = pivot
        /\ proc.requests[1].start * TicksPerDay = pivot - days * TicksPerDay
        /\ ~env.raises =>
              \A t \in market :
                  pivot - days * TicksPerDay <= t /\ t < pivot =>
                      \E i \in 1 .. Len(proc.fetched) : proc.fetched[i] = t
\* ================================================================ claims: report
Terminated(pc) == pc \in {"done", "died"}

\* C8: the report is printed only after both workers have ended, and it shows
\* the values the workers left in their result slots.
C8_ReportAfterBothWorkers ==
    report.printed /\ pcMain = "done" =>
        /\ Terminated(pcRsi) /\ Terminated(pcNews)
        /\ report.rsi = result_rsi
        /\ report.sentiment = result_sentiment
        /\ report.news = result_news

\* both workers wrote a value of their own before the report was printed
C8_Witness ==
    /\ report.printed /\ pcMain = "done"
    /\ report.rsi = F(50)
    /\ report.news.kind = "Headlines" /\ Len(report.news.lines) = 5
    /\ report.sentiment # Ratio(0, 1)

\* C9: no failure leaves a worker: the RSI worker ends with -1.0 on empty
\* history or any failure, the news worker ends with an "Error: ..." string on
\* any failure, the main thread, once it has started the workers, reaches the
\* report, and the RSI status is "DATA ERROR" exactly when the value is -1.0.
C9_WorkersSwallowFailures ==
    /\ [](pcRsi # "died" /\ pcNews # "died")
    /\ [](pcRsi = "done" /\ (rsi.exc # "none" \/ rsi.empty) => result_rsi = F(-1))
    /\ [](pcNews = "done" /\ news.exc # "none" => result_news.kind = "Error")
    /\ [](pcMain = "done" =>
            (report.rsi_status = "DATA ERROR" <=> report.rsi = F(-1)))
    /\ (pcMain = "start_rsi" ~> pcMain = "done")

\* both workers failed and the report was printed all the same
C9_Witness ==
    /\ pcMain = "done" /\ report.printed
    /\ rsi.exc # "none" /\ news.exc = "IndexError"
    /\ report.rsi_status = "DATA ERROR"
    /\ report.news.kind = "Error"
====
